---- MODULE Spec2Model ----
(***************************************************************************)
(* NoProto: the bool scalar codec (src/src/pointer/bool.rs), the pointer   *)
(* cells and the cursor (src/src/pointer/mod.rs), over a byte arena.       *)
(*                                                                         *)
(* A buffer is a sequence of bytes; the byte at address a is bytes[a + 1]. *)
(* Option<T> is a sequence: <<>> is None, <<x>> is Some(x).                *)
(* Result<T, NP_Error> is a record [status, val]; a Rust panic is the      *)
(* status "panic".                                                         *)
(***************************************************************************)
EXTENDS Integers, Sequences, FiniteSets, TLC

VARIABLES
    schema_json,    \* the JSON schema the factory was built from
    schema_bytes,   \* the compact schema bytes the factory emitted
    schema,         \* Vec<NP_Parsed_Schema>, the parsed schema nodes
    bytes,          \* the buffer's arena
    hist            \* the last operations: [op, arg, res, before]

vars == <<schema_json, schema_bytes, schema, bytes, hist>>

----------------------------------------------------------------------------
(* Bounds *)

\* The arena's address limit (65_535 in the program), scaled down.
MaxSize == 7
\* The longest buffer handed to open_buffer.
MaxOpenLen == 5
\* How many operations hist remembers.
HistLen == 3

\* The byte values a loaded buffer is drawn from.
OpenByteSet == {0, 1, 3, 9}

\* The longest buffer NP_Cursor::parse is called on.
MaxParseLen == 9

----------------------------------------------------------------------------
(* Option and Result *)

None == <<>>
Some(x) == <<x>>

Ok(v) == [status |-> "Ok", val |-> v]
Err(e) == [status |-> e, val |-> None]
Panic == [status |-> "panic", val |-> None]

----------------------------------------------------------------------------
(* NP_JSON *)

JNull == [tag |-> "Null"]
JTrue == [tag |-> "True"]
JFalse == [tag |-> "False"]
JString(s) == [tag |-> "String", s |-> s]
JDictionary(m) == [tag |-> "Dictionary", map |-> m]

\* JSMAP::insert
jsmap_insert(m, k, v) == (k :> v) @@ m

\* json_schema["key"]: a missing key reads as Null
json_index(j, k) ==
    IF j.tag = "Dictionary" /\ k \in DOMAIN j.map THEN j.map[k] ELSE JNull

----------------------------------------------------------------------------
(* Schema: bool *)

\* NP_TypeKeys::Boolean as u8
TypeKeyBoolean == 15

\* NP_Parsed_Schema::Boolean { i, sortable, default }
ParsedBoolean(default) == [i |-> "Boolean", sortable |-> TRUE, default |-> default]

\* NP_Parsed_Schema::Table, List, Tuple, Map: parse reads only the kind
ParsedCollection(kind) == [i |-> kind, sortable |-> FALSE, default |-> None]

\* bool::type_idx().0
type_idx == "bool"

\* Mutant: the default is emitted only when it is true.
schema_to_json_true_only(sch, address) ==
    LET schema_json0 == jsmap_insert(<<>>, "type", JString(type_idx))
        node == sch[address + 1]
    IN  IF node.default # None /\ node.default[1]
        THEN Ok(JDictionary(jsmap_insert(schema_json0, "default", JTrue)))
        ELSE Ok(JDictionary(schema_json0))

schema_to_json(sch, address) ==
    LET schema_json0 == jsmap_insert(<<>>, "type", JString(type_idx))
        node == sch[address + 1]
    IN  IF node.default # None
        THEN Ok(JDictionary(jsmap_insert(schema_json0, "default",
                    IF node.default[1] THEN JTrue ELSE JFalse)))
        ELSE Ok(JDictionary(schema_json0))

\* Mutant: the declared default is dropped.
schema_default_dropped(node) == None

schema_default(node) ==
    IF node.default # None THEN Some(node.default[1]) ELSE None

from_json_to_schema(sch, json_schema) ==
    LET d == json_index(json_schema, "default")
        enc == CASE d.tag = "False" -> [byte |-> 2, default |-> Some(FALSE)]
                 [] d.tag = "True"  -> [byte |-> 1, default |-> Some(TRUE)]
                 [] OTHER           -> [byte |-> 0, default |-> None]
    IN  [sortable |-> TRUE,
         bytes |-> <<TypeKeyBoolean, enc.byte>>,
         schema |-> Append(sch, ParsedBoolean(enc.default))]

from_bytes_to_schema(sch, address, sbytes) ==
    IF address >= Len(sbytes) THEN Panic
    ELSE LET b == sbytes[address + 1]
         IN  CASE b = 0 -> Ok(Append(sch, ParsedBoolean(None)))
               [] b = 1 -> Ok(Append(sch, ParsedBoolean(Some(TRUE))))
               [] b = 2 -> Ok(Append(sch, ParsedBoolean(Some(FALSE))))
               [] OTHER -> Panic

\* The valid bool schemas: no default, default true, default false.
BoolSchemaJson(default) ==
    IF default = None
    THEN JDictionary(jsmap_insert(<<>>, "type", JString("bool")))
    ELSE JDictionary(jsmap_insert(jsmap_insert(<<>>, "type", JString("bool")),
                                  "default", IF default[1] THEN JTrue ELSE JFalse))

ValidSchemas == { BoolSchemaJson(d) : d \in {None, Some(TRUE), Some(FALSE)} }

----------------------------------------------------------------------------
(* Memory arena *)

\* Bytes [0..2] are the root pointer; a fresh buffer is the 4-byte header.
ROOT_PTR_ADDR == 0
HEADER_SIZE == 4

EmptyBuffer == [i \in 1..HEADER_SIZE |-> 0]

from_be_bytes(b0, b1) == b0 * 256 + b1
to_be_bytes(x) == <<(x \div 256) % 256, x % 256>>

\* malloc_borrow(&bytes): bump-allocate and copy, or fail with OutOfSpace
malloc_borrow(b, data) ==
    IF Len(b) + Len(data) > MaxSize
    THEN [ok |-> FALSE, addr |-> 0, bytes |-> b]
    ELSE [ok |-> TRUE, addr |-> Len(b), bytes |-> b \o data]

\* write_address(at, value): store a 16-bit big-endian address
write_address(b, at, value) ==
    IF at + 2 > Len(b)
    THEN [ok |-> FALSE, bytes |-> b]
    ELSE [ok |-> TRUE,
          bytes |-> [b EXCEPT ![at + 1] = to_be_bytes(value)[1],
                              ![at + 2] = to_be_bytes(value)[2]]]

\* get_1_byte(addr): a bounds-checked read
get_1_byte(b, addr) ==
    IF addr < Len(b) THEN Some(b[addr + 1]) ELSE None

\* calc_bytes().current_buffer
calc_bytes_current(b) == Len(b)

----------------------------------------------------------------------------
(* Pointer cells and the cursor *)

\* get_size of the three cell shapes
PointerSize(shape) ==
    CASE shape = "Scalar"    -> 2
      [] shape = "List_Item" -> 5
      [] shape = "Map_Item"  -> 8

\* The shape of the view laid over the bytes at buff_addr; indexing
\* memory.schema out of range panics.
parse_cursor_value(buff_addr, parent_addr, parent_schema_addr, sch) ==
    IF parent_addr = 0 THEN Ok("Scalar")
    ELSE IF parent_schema_addr >= Len(sch) THEN Panic
    ELSE CASE sch[parent_schema_addr + 1].i = "List" -> Ok("List_Item")
           [] sch[parent_schema_addr + 1].i = "Map"  -> Ok("Map_Item")
           [] OTHER                                  -> Ok("Scalar")

\* NP_Cursor::parse: the cursor it records, or the panic it raises.  The
\* match on memory.schema[schema_addr] has the wildcard arm first, so every
\* kind of node takes it; the arm hands parse_cursor_value its arguments in
\* the order (buff_addr, parent_schema_addr, parent_addr).
parse(buff_addr, schema_addr, parent_addr, parent_schema_addr, b, sch) ==
    IF buff_addr > Len(b) THEN Panic
    ELSE IF schema_addr >= Len(sch) THEN Panic
    ELSE LET value == parse_cursor_value(buff_addr, parent_schema_addr,
                                         parent_addr, sch)
         IN  IF value.status # "Ok" THEN Panic
             ELSE Ok(Some([buff_addr |-> buff_addr,
                           schema_addr |-> schema_addr,
                           data |-> "Scalar",
                           value |-> value.val,
                           parent_addr |-> parent_addr]))

\* NP_Pointer_Bytes::get_addr_value through the cursor's view
get_addr_value(cur, b) ==
    from_be_bytes(b[cur.buff_addr + 1], b[cur.buff_addr + 2])

\* The cell views: the three structs and the virtual cursor's [u8; 8].
CellShapes == {"Scalar", "List_Item", "Map_Item", "Bytes8"}

\* u32::to_be_bytes and u32::from_be_bytes; a u32 is held as the pair of
\* its high and low 16-bit halves, <<x \div 65536, x % 65536>>.
to_be_bytes_u32(x) == to_be_bytes(x[1]) \o to_be_bytes(x[2])
from_be_bytes_u32(b0, b1, b2, b3) == <<from_be_bytes(b0, b1), from_be_bytes(b2, b3)>>

\* The NP_Pointer_Bytes accessors of the view of shape `shape` over the
\* bytes of arena b at address at.  A setter returns [res, bytes], a getter
\* a result; an accessor the shape does not implement is the trait's
\* default, which panics.
set_addr_value(shape, b, at, addr) ==
    [res |-> Ok(None),
     bytes |-> [b EXCEPT ![at + 1] = to_be_bytes(addr)[1],
                         ![at + 2] = to_be_bytes(addr)[2]]]

get_next_addr(shape, b, at) ==
    IF shape = "Scalar" THEN Panic
    ELSE Ok(from_be_bytes(b[at + 3], b[at + 4]))

\* Mutant: next_value is written over addr_value.
set_next_addr_over_addr_value(shape, b, at, addr) ==
    IF shape = "Scalar" THEN [res |-> Panic, bytes |-> b]
    ELSE [res |-> Ok(None),
          bytes |-> [b EXCEPT ![at + 1] = to_be_bytes(addr)[1],
                              ![at + 2] = to_be_bytes(addr)[2]]]

set_next_addr(shape, b, at, addr) ==
    IF shape = "Scalar" THEN [res |-> Panic, bytes |-> b]
    ELSE [res |-> Ok(None),
          bytes |-> [b EXCEPT ![at + 3] = to_be_bytes(addr)[1],
                              ![at + 4] = to_be_bytes(addr)[2]]]

get_index(shape, b, at) ==
    IF shape \in {"List_Item", "Bytes8"} THEN Ok(b[at + 5]) ELSE Panic

set_index(shape, b, at, index) ==
    IF shape \in {"List_Item", "Bytes8"}
    THEN [res |-> Ok(None), bytes |-> [b EXCEPT ![at + 5] = index % 256]]
    ELSE [res |-> Panic, bytes |-> b]

get_key_hash(shape, b, at) ==
    IF shape \in {"Map_Item", "Bytes8"}
    THEN Ok(from_be_bytes_u32(b[at + 5], b[at + 6], b[at + 7], b[at + 8]))
    ELSE Panic

set_key_hash(shape, b, at, hash) ==
    IF shape \in {"Map_Item", "Bytes8"}
    THEN [res |-> Ok(None),
          bytes |-> [b EXCEPT ![at + 5] = to_be_bytes_u32(hash)[1],
                              ![at + 6] = to_be_bytes_u32(hash)[2],
                              ![at + 7] = to_be_bytes_u32(hash)[3],
                              ![at + 8] = to_be_bytes_u32(hash)[4]]]
    ELSE [res |-> Panic, bytes |-> b]

----------------------------------------------------------------------------
(* The bool codec.  Operations on the arena return [res, bytes]: the       *)
(* result and the arena afterwards.                                        *)

BoolByte(value) == IF value THEN 1 ELSE 0

\* Mutant: a new value is allocated but its address never reaches the cell.
set_value_no_pointer_update(cur, b, value) ==
    LET value_address == get_addr_value(cur, b)
    IN  IF value_address # 0
        THEN IF value_address < Len(b)
             THEN [res |-> Ok(Some(cur)),
                   bytes |-> [b EXCEPT ![value_address + 1] = BoolByte(value)]]
             ELSE [res |-> Panic, bytes |-> b]
        ELSE LET m == malloc_borrow(b, <<BoolByte(value)>>)
             IN  IF ~m.ok
                 THEN [res |-> Err("OutOfSpace"), bytes |-> b]
                 ELSE [res |-> Ok(Some(cur)), bytes |-> m.bytes]

\* Mutant: false is taken for "nothing to store" on an absent value.
set_value_skip_false(cur, b, value) ==
    LET value_address == get_addr_value(cur, b)
    IN  IF value_address # 0
        THEN IF value_address < Len(b)
             THEN [res |-> Ok(Some(cur)),
                   bytes |-> [b EXCEPT ![value_address + 1] = BoolByte(value)]]
             ELSE [res |-> Panic, bytes |-> b]
        ELSE IF ~value THEN [res |-> Ok(Some(cur)), bytes |-> b]
        ELSE LET m == malloc_borrow(b, <<BoolByte(value)>>)
             IN  IF ~m.ok
                 THEN [res |-> Err("OutOfSpace"), bytes |-> b]
                 ELSE LET w == write_address(m.bytes, cur.buff_addr, m.addr)
                      IN  IF w.ok
                          THEN [res |-> Ok(Some(cur)), bytes |-> w.bytes]
                          ELSE [res |-> Panic, bytes |-> m.bytes]

\* Mutant: the cell is pointed at the next free address before the
\* allocation is known to succeed.
set_value_pointer_first(cur, b, value) ==
    LET value_address == get_addr_value(cur, b)
    IN  IF value_address # 0
        THEN IF value_address < Len(b)
             THEN [res |-> Ok(Some(cur)),
                   bytes |-> [b EXCEPT ![value_address + 1] = BoolByte(value)]]
             ELSE [res |-> Panic, bytes |-> b]
        ELSE LET w == write_address(b, cur.buff_addr, Len(b))
                 m == malloc_borrow(w.bytes, <<BoolByte(value)>>)
             IN  IF ~w.ok THEN [res |-> Panic, bytes |-> b]
                 ELSE IF ~m.ok
                 THEN [res |-> Err("OutOfSpace"), bytes |-> w.bytes]
                 ELSE [res |-> Ok(Some(cur)), bytes |-> m.bytes]

\* Mutant: every set allocates, an existing value included.
set_value_always_allocates(cur, b, value) ==
    LET m == malloc_borrow(b, <<BoolByte(value)>>)
    IN  IF ~m.ok
        THEN [res |-> Err("OutOfSpace"), bytes |-> b]
        ELSE LET w == write_address(m.bytes, cur.buff_addr, m.addr)
             IN  IF w.ok
                 THEN [res |-> Ok(Some(cur)), bytes |-> w.bytes]
                 ELSE [res |-> Panic, bytes |-> m.bytes]

\* Mutant: the in-place write lands one byte before the value.
set_value_overwrite_off_by_one(cur, b, value) ==
    LET value_address == get_addr_value(cur, b)
    IN  IF value_address # 0
        THEN IF value_address < Len(b)
             THEN [res |-> Ok(Some(cur)),
                   bytes |-> [b EXCEPT ![value_address] = BoolByte(value)]]
             ELSE [res |-> Panic, bytes |-> b]
        ELSE LET m == malloc_borrow(b, <<BoolByte(value)>>)
             IN  IF ~m.ok
                 THEN [res |-> Err("OutOfSpace"), bytes |-> b]
                 ELSE LET w == write_address(m.bytes, cur.buff_addr, m.addr)
                      IN  IF w.ok
                          THEN [res |-> Ok(Some(cur)), bytes |-> w.bytes]
                          ELSE [res |-> Panic, bytes |-> m.bytes]

\* Mutant: writing false over an existing value clears the cell instead.
set_value_false_clears(cur, b, value) ==
    LET value_address == get_addr_value(cur, b)
    IN  IF value_address # 0
        THEN IF value_address < Len(b)
             THEN [res |-> Ok(Some(cur)),
                   bytes |-> IF value
                             THEN [b EXCEPT ![value_address + 1] = BoolByte(value)]
                             ELSE write_address(b, cur.buff_addr, 0).bytes]
             ELSE [res |-> Panic, bytes |-> b]
        ELSE LET m == malloc_borrow(b, <<BoolByte(value)>>)
             IN  IF ~m.ok
                 THEN [res |-> Err("OutOfSpace"), bytes |-> b]
                 ELSE LET w == write_address(m.bytes, cur.buff_addr, m.addr)
                      IN  IF w.ok
                          THEN [res |-> Ok(Some(cur)), bytes |-> w.bytes]
                          ELSE [res |-> Panic, bytes |-> m.bytes]

set_value(cur, b, value) ==
    LET value_address == get_addr_value(cur, b)
    IN  IF value_address # 0
        THEN \* existing value, replace: write_bytes()[value_address] = ..
             IF value_address < Len(b)
             THEN [res |-> Ok(Some(cur)),
                   bytes |-> [b EXCEPT ![value_address + 1] = BoolByte(value)]]
             ELSE [res |-> Panic, bytes |-> b]
        ELSE \* new value
             LET m == malloc_borrow(b, <<BoolByte(value)>>)
             IN  IF ~m.ok
                 THEN [res |-> Err("OutOfSpace"), bytes |-> b]
                 ELSE LET w == write_address(m.bytes, cur.buff_addr, m.addr)
                      IN  IF w.ok
                          THEN [res |-> Ok(Some(cur)), bytes |-> w.bytes]
                          ELSE [res |-> Panic, bytes |-> m.bytes]

\* Mutant: the empty-value test is missing.
into_value_no_empty_check(cur, b) ==
    LET value_addr == get_addr_value(cur, b)
        x == get_1_byte(b, value_addr)
    IN  IF x # None THEN Ok(Some(x[1] = 1)) ELSE Ok(None)

into_value(cur, b) ==
    LET value_addr == get_addr_value(cur, b)
    IN  IF value_addr = 0 THEN Ok(None)
        ELSE LET x == get_1_byte(b, value_addr)
             IN  IF x # None THEN Ok(Some(x[1] = 1)) ELSE Ok(None)

\* Compaction returns [res, bytes, from]: the result, the destination arena
\* and the source arena afterwards.
WithSource(r, from_b) == [res |-> r.res, bytes |-> r.bytes, from |-> from_b]

\* Mutant: the value read from the source is never written.
do_compact_drops_value(from_cur, from_b, to_cur, to_b) ==
    LET v == into_value(from_cur, from_b)
    IN  IF v.status # "Ok" THEN [res |-> v, bytes |-> to_b, from |-> from_b]
        ELSE [res |-> Ok(Some(to_cur)), bytes |-> to_b, from |-> from_b]

\* Mutant: an absent source value is written as the type's zero value.
do_compact_writes_absent(from_cur, from_b, to_cur, to_b) ==
    LET v == into_value(from_cur, from_b)
    IN  IF v.status # "Ok" THEN [res |-> v, bytes |-> to_b, from |-> from_b]
        ELSE IF v.val # None
             THEN WithSource(set_value(to_cur, to_b, v.val[1]), from_b)
             ELSE WithSource(set_value(to_cur, to_b, FALSE), from_b)

\* Mutant: the value is moved: the source's cell is cleared once copied.
do_compact_moves_value(from_cur, from_b, to_cur, to_b) ==
    LET v == into_value(from_cur, from_b)
    IN  IF v.status # "Ok" THEN [res |-> v, bytes |-> to_b, from |-> from_b]
        ELSE IF v.val # None
             THEN WithSource(set_value(to_cur, to_b, v.val[1]),
                             write_address(from_b, from_cur.buff_addr, 0).bytes)
             ELSE [res |-> Ok(Some(to_cur)), bytes |-> to_b, from |-> from_b]

\* NP_Value::do_compact, with source and destination each (cursor, arena):
\* the source is only read (into_value), the destination is written
\* (set_value).
do_compact(from_cur, from_b, to_cur, to_b) ==
    LET v == into_value(from_cur, from_b)
    IN  IF v.status # "Ok" THEN [res |-> v, bytes |-> to_b, from |-> from_b]
        ELSE IF v.val # None
             THEN WithSource(set_value(to_cur, to_b, v.val[1]), from_b)
             ELSE [res |-> Ok(Some(to_cur)), bytes |-> to_b, from |-> from_b]

\* NP_Cursor::compact: dispatch on the source cursor's type key
compact(from_cur, from_b, to_cur, to_b, sch) ==
    IF sch[from_cur.schema_addr + 1].i = "Boolean"
    THEN do_compact(from_cur, from_b, to_cur, to_b)
    ELSE [res |-> Panic, bytes |-> to_b, from |-> from_b]

\* NP_Cursor::set_default: the type's own default value, for bool false
set_default(cur, b, sch) ==
    IF sch[cur.schema_addr + 1].i = "Boolean"
    THEN LET r == set_value(cur, b, FALSE)
         IN  [res |-> IF r.res.status = "Ok" THEN Ok(None) ELSE r.res,
              bytes |-> r.bytes]
    ELSE [res |-> Panic, bytes |-> b]

\* Mutant: an absent value is always emitted as null.
to_json_ignores_default(cur, b, sch) ==
    LET x == into_value(cur, b)
    IN  IF x.status = "Ok"
        THEN IF x.val # None
             THEN (IF x.val[1] THEN JTrue ELSE JFalse)
             ELSE JNull
        ELSE JNull

\* bool::to_json
to_json(cur, b, sch) ==
    LET x == into_value(cur, b)
    IN  IF x.status = "Ok"
        THEN IF x.val # None
             THEN (IF x.val[1] THEN JTrue ELSE JFalse)
             ELSE LET default == sch[cur.schema_addr + 1].default
                  IN  IF default # None
                      THEN (IF default[1] THEN JTrue ELSE JFalse)
                      ELSE JNull
        ELSE JNull

\* NP_Cursor::json_encode: dispatch on the cursor's type key
json_encode(cur, b, sch) ==
    IF sch[cur.schema_addr + 1].i = "Boolean"
    THEN Ok(to_json(cur, b, sch))
    ELSE Panic

\* bool::get_size
get_size(cur, b) ==
    IF get_addr_value(cur, b) = 0 THEN Ok(0) ELSE Ok(1)

\* NP_Cursor_Addr
Virtual == [tag |-> "Virtual", addr |-> 0]
Real(buff_addr) == [tag |-> "Real", addr |-> buff_addr]

\* Mutant: the pointer cell is left out of a set value's size.
calc_size_without_cell(cursor_addr, cur, b, sch) ==
    IF cursor_addr.tag = "Real"
    THEN LET base_size == PointerSize(cur.value)
         IN  IF get_addr_value(cur, b) = 0 THEN Ok(base_size)
             ELSE get_size(cur, b)
    ELSE Ok(0)

\* NP_Cursor::calc_size, cur being memory.get_parsed(&cursor_addr); the
\* sizes of the other types' values are outside this model.
calc_size(cursor_addr, cur, b, sch) ==
    IF cursor_addr.tag = "Real"
    THEN LET base_size == PointerSize(cur.value)
         IN  IF get_addr_value(cur, b) = 0 THEN Ok(base_size)
             ELSE IF sch[cur.schema_addr + 1].i = "Boolean"
                  THEN LET type_size == get_size(cur, b)
                       IN  IF type_size.status # "Ok" THEN type_size
                           ELSE Ok(type_size.val + base_size)
                  ELSE Panic
    ELSE Ok(0)

----------------------------------------------------------------------------
(* Buffer API over the path (): each parses the cursor, then dispatches *)

root_cursor(at, b, sch) == parse(at, 0, 0, 0, b, sch)

Buffer_get(at, b, sch) ==
    LET c == root_cursor(at, b, sch)
    IN  IF c.status # "Ok" THEN c
        ELSE LET v == into_value(c.val[1], b)
             IN  IF v.status # "Ok" THEN v
                 ELSE IF v.val # None THEN v
                 ELSE Ok(schema_default(sch[c.val[1].schema_addr + 1]))

Buffer_set(at, b, sch, value) ==
    LET c == root_cursor(at, b, sch)
    IN  IF c.status # "Ok" THEN [res |-> c, bytes |-> b]
        ELSE LET r == set_value(c.val[1], b, value)
             IN  [res |-> IF r.res.status = "Ok" THEN Ok(None) ELSE r.res,
                  bytes |-> r.bytes]

Buffer_del(at, b, sch) ==
    LET c == root_cursor(at, b, sch)
    IN  IF c.status # "Ok" THEN [res |-> c, bytes |-> b]
        ELSE LET w == write_address(b, c.val[1].buff_addr, 0)
             IN  IF w.ok THEN [res |-> Ok(None), bytes |-> w.bytes]
                 ELSE [res |-> Panic, bytes |-> b]

Buffer_set_default(at, b, sch) ==
    LET c == root_cursor(at, b, sch)
    IN  IF c.status # "Ok" THEN [res |-> c, bytes |-> b]
        ELSE set_default(c.val[1], b, sch)

\* Buffer::compact: compact into a fresh arena, which replaces the old one
\* when compaction succeeds; `from` is the old arena as compaction left it.
Buffer_compact(at, b, sch) ==
    LET from == root_cursor(at, b, sch)
        to == root_cursor(ROOT_PTR_ADDR, EmptyBuffer, sch)
    IN  IF from.status # "Ok" THEN [res |-> from, bytes |-> b, from |-> b]
        ELSE LET r == compact(from.val[1], b,
                              to.val[1], EmptyBuffer, sch)
             IN  IF r.res.status = "Ok"
                 THEN [res |-> Ok(None), bytes |-> r.bytes, from |-> r.from]
                 ELSE [res |-> r.res, bytes |-> r.from, from |-> r.from]

\* Buffer::to_json
Buffer_to_json(at, b, sch) ==
    LET c == root_cursor(at, b, sch)
    IN  IF c.status # "Ok" THEN c
        ELSE json_encode(c.val[1], b, sch)

----------------------------------------------------------------------------
(* State machine *)

Push(h, e) == IF Len(h) < HistLen THEN Append(h, e) ELSE Append(Tail(h), e)

Entry(op, arg, res, before) == [op |-> op, arg |-> arg, res |-> res, before |-> before]

\* A panic ends the program.
Crashed == hist # <<>> /\ hist[Len(hist)].res.status = "panic"

\* NP_Factory::new(json): parse the JSON schema, keep its bytes and nodes.
Factory(json) ==
    LET r == from_json_to_schema(<<>>, json)
    IN  /\ schema_json = json
        /\ schema_bytes = r.bytes
        /\ schema = r.schema

\* factory.empty_buffer(None, None)
Init ==
    /\ \E json \in ValidSchemas : Factory(json)
    /\ bytes = EmptyBuffer
    /\ hist = <<>>

\* factory.open_buffer(bytes) on arbitrary bytes behind a whole header
InitOpen ==
    /\ \E json \in ValidSchemas : Factory(json)
    /\ \E n \in HEADER_SIZE..MaxOpenLen : bytes \in [1..n -> OpenByteSet]
    /\ hist = <<>>

Set(v) ==
    /\ ~Crashed
    /\ LET r == Buffer_set(ROOT_PTR_ADDR, bytes, schema, v)
       IN  /\ bytes' = r.bytes
           /\ hist' = Push(hist, Entry("set", Some(v), r.res, bytes))
    /\ UNCHANGED <<schema_json, schema_bytes, schema>>

SetDefault ==
    /\ ~Crashed
    /\ LET r == Buffer_set_default(ROOT_PTR_ADDR, bytes, schema)
       IN  /\ bytes' = r.bytes
           /\ hist' = Push(hist, Entry("set_default", None, r.res, bytes))
    /\ UNCHANGED <<schema_json, schema_bytes, schema>>

Del ==
    /\ ~Crashed
    /\ LET r == Buffer_del(ROOT_PTR_ADDR, bytes, schema)
       IN  /\ bytes' = r.bytes
           /\ hist' = Push(hist, Entry("del", None, r.res, bytes))
    /\ UNCHANGED <<schema_json, schema_bytes, schema>>

Get ==
    /\ ~Crashed
    /\ hist' = Push(hist, Entry("get", None,
                     Buffer_get(ROOT_PTR_ADDR, bytes, schema), bytes))
    /\ UNCHANGED <<schema_json, schema_bytes, schema, bytes>>

\* buffer.compact(None, None); the entry's arg is the source arena as the
\* compaction left it.
Compact ==
    /\ ~Crashed
    /\ LET r == Buffer_compact(ROOT_PTR_ADDR, bytes, schema)
       IN  /\ bytes' = r.bytes
           /\ hist' = Push(hist, Entry("compact", Some(r.from), r.res, bytes))
    /\ UNCHANGED <<schema_json, schema_bytes, schema>>

\* buffer.to_json()
ToJson ==
    /\ ~Crashed
    /\ hist' = Push(hist, Entry("to_json", None,
                     Buffer_to_json(ROOT_PTR_ADDR, bytes, schema), bytes))
    /\ UNCHANGED <<schema_json, schema_bytes, schema, bytes>>

\* factory.schema.to_json()
SchemaToJson ==
    /\ ~Crashed
    /\ hist' = Push(hist, Entry("schema_to_json", None,
                                schema_to_json(schema, 0), bytes))
    /\ UNCHANGED <<schema_json, schema_bytes, schema, bytes>>

\* Parse the factory's compact schema bytes at the root node's address.
SchemaFromBytes ==
    /\ ~Crashed
    /\ hist' = Push(hist, Entry("schema_from_bytes", None,
                                from_bytes_to_schema(<<>>, 0, schema_bytes), bytes))
    /\ UNCHANGED <<schema_json, schema_bytes, schema, bytes>>

Next ==
    \/ \E v \in BOOLEAN : Set(v)
    \/ SetDefault
    \/ Del
    \/ Get
    \/ ToJson
    \/ Compact
    \/ SchemaToJson
    \/ SchemaFromBytes

Spec == Init /\ [][Next]_vars

\* On a loaded buffer: the reads and writes of the path ().
NextOpen ==
    \/ \E v \in BOOLEAN : Set(v)
    \/ Get

SpecOpen == InitOpen /\ [][NextOpen]_vars

----------------------------------------------------------------------------
(* NP_Cursor::parse and calc_size with arbitrary arguments, over schemas    *)
(* with nodes of every kind.  A behaviour is one call of parse on a loaded  *)
(* buffer, then calc_size calls on the cursor it recorded.                  *)

SchemaKinds == {"Boolean", "Table", "List", "Tuple", "Map"}

SchemaNode(kind) ==
    IF kind = "Boolean" THEN ParsedBoolean(None) ELSE ParsedCollection(kind)

\* Schemas of one node, and of a root node with one child node.
ParseSchemas ==
    { <<SchemaNode(k)>> : k \in SchemaKinds }
        \cup { <<SchemaNode(k), SchemaNode(c)>> : k \in SchemaKinds, c \in SchemaKinds }

\* Buffers of n bytes, all zero (no pointer set) or all one (every pointer
\* set).
ParseBuffers ==
    { [i \in 1..n |-> v] : n \in HEADER_SIZE..MaxParseLen, v \in {0, 1} }

InitParse ==
    /\ schema_json = JNull
    /\ schema_bytes = <<>>
    /\ schema \in ParseSchemas
    /\ bytes \in ParseBuffers
    /\ hist = <<>>

ParseArgs(buff_addr, schema_addr, parent_addr, parent_schema_addr) ==
    [buff_addr |-> buff_addr, schema_addr |-> schema_addr,
     parent_addr |-> parent_addr, parent_schema_addr |-> parent_schema_addr]

\* NP_Cursor::parse(buff_addr, schema_addr, parent_addr, parent_schema_addr)
Parse(buff_addr, schema_addr, parent_addr, parent_schema_addr) ==
    /\ hist = <<>>
    /\ hist' = << Entry("parse",
                    Some(ParseArgs(buff_addr, schema_addr, parent_addr,
                                   parent_schema_addr)),
                    parse(buff_addr, schema_addr, parent_addr,
                          parent_schema_addr, bytes, schema),
                    bytes) >>
    /\ UNCHANGED <<schema_json, schema_bytes, schema, bytes>>

\* The arena as the cursor's view reads it: what a view reads past the end
\* of the buffer is any byte.
ViewOf(cur, b) ==
    IF cur.buff_addr + 2 <= Len(b) THEN {b}
    ELSE { b \o pad : pad \in [1..(cur.buff_addr + 2 - Len(b)) -> {0, 1}] }

\* NP_Cursor::calc_size of the bool cursor the last parse recorded, by its
\* address or as a virtual cursor.
CalcSize ==
    /\ hist # <<>>
    /\ hist[1].res.status = "Ok"
    /\ LET cur == hist[1].res.val[1]
       IN  /\ schema[cur.schema_addr + 1].i = "Boolean"
           /\ \E cursor_addr \in {Virtual, Real(cur.buff_addr)} :
              \E view \in ViewOf(cur, bytes) :
                 hist' = << hist[1],
                            Entry("calc_size", Some(cursor_addr),
                                  calc_size(cursor_addr, cur, view, schema),
                                  bytes) >>
    /\ UNCHANGED <<schema_json, schema_bytes, schema, bytes>>

NextParse ==
    \/ \E buff_addr \in 0..(Len(bytes) + 1), schema_addr \in 0..Len(schema),
          parent_addr \in 0..(Len(bytes) - 1),
          parent_schema_addr \in 0..(Len(schema) - 1) :
            Parse(buff_addr, schema_addr, parent_addr, parent_schema_addr)
    \/ CalcSize

SpecParse == InitParse /\ [][NextParse]_vars

----------------------------------------------------------------------------
(* The pointer cell accessors over the eight bytes at a cell's address:     *)
(* bytes is that memory, hist the last write.                               *)

\* The length of the virtual cursor's [u8; 8], the longest cell
CellBytes == 8

U8Values == {0, 1, 255}
U16Values == {0, 1, 255, 256, 4660, 65535}
\* 0, 1, 0x10000, 0x01020304, 0xFFFFFFFF as halves
U32Values == {<<0, 0>>, <<0, 1>>, <<1, 0>>, <<258, 772>>, <<65535, 65535>>}

InitCell ==
    /\ schema_json = JNull
    /\ schema_bytes = <<>>
    /\ schema = <<>>
    /\ bytes \in { [i \in 1..CellBytes |-> v] : v \in {0, 255} }
    /\ hist = <<>>

CellArg(shape, x) == [shape |-> shape, x |-> x]

CellWrite(op, shape, x, r) ==
    /\ ~Crashed
    /\ bytes' = r.bytes
    /\ hist' = << Entry(op, Some(CellArg(shape, x)), r.res, bytes) >>
    /\ UNCHANGED <<schema_json, schema_bytes, schema>>

SetAddrValue(shape, x) ==
    CellWrite("set_addr_value", shape, x, set_addr_value(shape, bytes, 0, x))
SetNextAddr(shape, x) ==
    CellWrite("set_next_addr", shape, x, set_next_addr(shape, bytes, 0, x))
SetIndex(shape, x) ==
    CellWrite("set_index", shape, x, set_index(shape, bytes, 0, x))
SetKeyHash(shape, x) ==
    CellWrite("set_key_hash", shape, x, set_key_hash(shape, bytes, 0, x))

NextCell ==
    \/ \E shape \in CellShapes, x \in U16Values : SetAddrValue(shape, x)
    \/ \E shape \in CellShapes, x \in U16Values : SetNextAddr(shape, x)
    \/ \E shape \in CellShapes, x \in U8Values : SetIndex(shape, x)
    \/ \E shape \in CellShapes, x \in U32Values : SetKeyHash(shape, x)

SpecCell == InitCell /\ [][NextCell]_vars

----------------------------------------------------------------------------
(* Properties *)

\* The k-th operation back from the last one (0 is the last).
H(k) == hist[Len(hist) - k]
Did(k, op) == Len(hist) > k /\ H(k).op = op
DidOk(k, op) == Did(k, op) /\ H(k).res.status = "Ok"

\* addr_value of the pointer cell of the path (), read from arena b
AddrValue(b) == from_be_bytes(b[ROOT_PTR_ADDR + 1], b[ROOT_PTR_ADDR + 2])

\* The schema's declared default at the path ()
DeclaredDefault == schema[1].default

\* C1: round-trip for bool: set(v) at the root path of an empty buffer,
\* then get at the same path, returns Some(v), for v true and v false.
C1_RoundTrip ==
    (Did(1, "set") /\ H(1).before = EmptyBuffer /\ Did(0, "get"))
        => H(0).res = Ok(H(1).arg)

C1_Witness ==
    /\ Did(1, "set") /\ H(1).before = EmptyBuffer /\ H(1).arg = Some(FALSE)
    /\ Did(0, "get") /\ H(0).res = Ok(Some(FALSE))

\* C2: get returns None iff addr_value is 0 and the schema declares no
\* default; with addr_value 0 and a default it returns Some(default); with
\* addr_value non-zero it returns the decoded stored value.
C2_GetContract ==
    Did(0, "get") =>
        LET addr == AddrValue(H(0).before)
        IN  /\ H(0).res.status = "Ok"
            /\ (H(0).res.val = None) <=> (addr = 0 /\ DeclaredDefault = None)
            /\ (addr = 0 /\ DeclaredDefault # None) => H(0).res.val = DeclaredDefault
            /\ addr # 0 => H(0).res.val = Some(H(0).before[addr + 1] = 1)

C2_Witness ==
    /\ Did(0, "get") /\ AddrValue(H(0).before) = 0
    /\ DeclaredDefault = Some(TRUE) /\ H(0).res = Ok(Some(TRUE))

\* C3: delete clears: after set(p, v) followed by del(p), get(p) returns
\* None when the schema has no default at p, and the default when it has.
C3_DeleteClears ==
    (DidOk(2, "set") /\ Did(1, "del") /\ Did(0, "get"))
        => H(0).res = Ok(DeclaredDefault)

C3_Witness ==
    /\ DidOk(2, "set") /\ H(2).arg = Some(TRUE) /\ Did(1, "del") /\ Did(0, "get")
    /\ DeclaredDefault = Some(FALSE) /\ H(0).res = Ok(Some(FALSE))

\* C4: a default applies only to an absent value: after a set to false, or
\* a set_default, addr_value is non-zero and get returns Some(false) even
\* when the default is true; a get that finds addr_value non-zero returns
\* the stored value, never the default.
WroteFalse(k) ==
    \/ DidOk(k, "set") /\ H(k).arg = Some(FALSE)
    \/ DidOk(k, "set_default")

C4_DefaultOnlyWhenAbsent ==
    /\ WroteFalse(0) => AddrValue(bytes) # 0
    /\ (WroteFalse(1) /\ Did(0, "get"))
            => (AddrValue(bytes) # 0 /\ H(0).res = Ok(Some(FALSE)))
    /\ (Did(0, "get") /\ AddrValue(H(0).before) # 0)
            => H(0).res = Ok(Some(H(0).before[AddrValue(H(0).before) + 1] = 1))

C4_Witness ==
    /\ DidOk(1, "set_default") /\ H(1).before = EmptyBuffer /\ Did(0, "get")
    /\ DeclaredDefault = Some(TRUE) /\ H(0).res = Ok(Some(FALSE))

\* C5: compaction preserves semantics: for every buffer reachable by set
\* and del, get on the compacted buffer equals get on the buffer before,
\* and the compacted buffer's current size is not larger.
C5_CompactPreserves ==
    /\ Did(0, "compact") =>
        /\ H(0).res.status = "Ok"
        /\ Buffer_get(ROOT_PTR_ADDR, bytes, schema)
             = Buffer_get(ROOT_PTR_ADDR, H(0).before, schema)
        /\ calc_bytes_current(bytes) <= calc_bytes_current(H(0).before)
    /\ (Did(2, "get") /\ Did(1, "compact") /\ Did(0, "get"))
            => H(0).res = H(2).res

C5_Witness ==
    /\ Did(0, "compact")
    /\ calc_bytes_current(bytes) < calc_bytes_current(H(0).before)
    /\ Buffer_get(ROOT_PTR_ADDR, bytes, schema) = Ok(Some(TRUE))
    /\ DeclaredDefault = Some(FALSE)

\* C6: compaction never copies orphaned or deleted allocations: after set,
\* del, compact the buffer is exactly the 4-byte header; in general a scalar
\* whose source get yields no value causes no allocation in the destination.
C6_CompactDropsDeleted ==
    /\ (DidOk(2, "set") /\ Did(1, "del") /\ Did(0, "compact"))
            => calc_bytes_current(bytes) = 4
    /\ (Did(0, "compact")
            /\ Buffer_get(ROOT_PTR_ADDR, H(0).before, schema) = Ok(None))
            => bytes = EmptyBuffer

C6_Witness ==
    /\ DidOk(2, "set") /\ Did(1, "del") /\ Did(0, "compact")
    /\ DeclaredDefault = Some(TRUE)
    /\ calc_bytes_current(H(0).before) > 4
    /\ calc_bytes_current(bytes) = 4

\* C7: a failed write is transactional: when set on an absent bool fails
\* with OutOfSpace, addr_value is still 0, no byte has changed, and get
\* returns what it returned before.
C7_FailedSetTransactional ==
    (Did(0, "set") /\ H(0).res.status = "OutOfSpace") =>
        /\ AddrValue(H(0).before) = 0
        /\ AddrValue(bytes) = 0
        /\ bytes = H(0).before
        /\ Buffer_get(ROOT_PTR_ADDR, bytes, schema)
             = Buffer_get(ROOT_PTR_ADDR, H(0).before, schema)

C7_Witness ==
    /\ Did(0, "set") /\ H(0).res.status = "OutOfSpace"
    /\ Len(bytes) = MaxSize /\ AddrValue(bytes) = 0

\* C8: buffer safety: on a buffer loaded from arbitrary bytes no get or set
\* panics, and whenever the cursor's cell or the value address lies outside
\* the buffer the operation returns the Corrupt error.
CursorOutside(b) == ROOT_PTR_ADDR + 2 > Len(b)
ValueOutside(b) == ~CursorOutside(b) /\ AddrValue(b) # 0 /\ AddrValue(b) >= Len(b)

C8_BufferSafety ==
    (Did(0, "get") \/ Did(0, "set")) =>
        /\ H(0).res.status # "panic"
        /\ (CursorOutside(H(0).before) \/ ValueOutside(H(0).before))
                => H(0).res.status = "Corrupt"

\* C9: schema JSON round-trip for bool: for each valid bool schema, to_json
\* of the parsed schema is the JSON it was parsed from, the "default" key
\* included.
C9_SchemaJsonRoundTrip ==
    Did(0, "schema_to_json") => H(0).res = Ok(schema_json)

C9_Witness ==
    /\ Did(0, "schema_to_json")
    /\ json_index(schema_json, "default") = JFalse
    /\ H(0).res.status = "Ok"
    /\ json_index(H(0).res.val, "default") = JFalse

\* C10: schema bytes round-trip for bool: the compact bytes emitted from
\* JSON (type key, then 0 = none, 1 = true, 2 = false), parsed by from_bytes
\* at the node's address, yield the original node with the same default.
C10_SchemaBytesRoundTrip ==
    Did(0, "schema_from_bytes") => H(0).res = Ok(schema)

\* C11: idempotent set: applying set(p, v) twice leaves a buffer on which
\* get returns what it returned after the single set, and whose current
\* size is not larger than after the single set.
C11_IdempotentSet ==
    (Did(1, "set") /\ Did(0, "set") /\ H(0).arg = H(1).arg) =>
        /\ Buffer_get(ROOT_PTR_ADDR, bytes, schema)
             = Buffer_get(ROOT_PTR_ADDR, H(0).before, schema)
        /\ calc_bytes_current(bytes) <= calc_bytes_current(H(0).before)

C11_Witness ==
    /\ DidOk(1, "set") /\ DidOk(0, "set")
    /\ H(1).arg = Some(TRUE) /\ H(0).arg = Some(TRUE)
    /\ AddrValue(H(1).before) = 0
    /\ Buffer_get(ROOT_PTR_ADDR, bytes, schema) = Ok(Some(TRUE))
    /\ calc_bytes_current(bytes) = calc_bytes_current(H(0).before)

\* C14: in-place overwrite: a set on a bool whose addr_value is non-zero
\* writes exactly the byte at addr_value (1 for true, 0 for false) and
\* leaves addr_value, the length and every other byte unchanged; a set with
\* addr_value zero allocates exactly one byte, holding the value, and stores
\* its address in the pointer cell, all other bytes unchanged.
C14_InPlaceOverwrite ==
    DidOk(0, "set") =>
        LET b0 == H(0).before
            addr == AddrValue(b0)
            byte == IF H(0).arg[1] THEN 1 ELSE 0
        IN  /\ addr # 0 =>
                /\ bytes = [b0 EXCEPT ![addr + 1] = byte]
                /\ AddrValue(bytes) = addr
                /\ Len(bytes) = Len(b0)
            /\ addr = 0 =>
                /\ Len(bytes) = Len(b0) + 1
                /\ bytes[Len(b0) + 1] = byte
                /\ AddrValue(bytes) = Len(b0)
                /\ \A i \in 1..Len(b0) :
                       i \notin {ROOT_PTR_ADDR + 1, ROOT_PTR_ADDR + 2}
                            => bytes[i] = b0[i]

C14_Witness ==
    /\ DidOk(0, "set") /\ H(0).arg = Some(FALSE)
    /\ AddrValue(H(0).before) # 0
    /\ H(0).before[AddrValue(H(0).before) + 1] = 1
    /\ bytes[AddrValue(bytes) + 1] = 0
    /\ Len(bytes) = Len(H(0).before)

\* C12: compaction does not modify its source: whether it succeeds or
\* fails, every byte of the source arena is as it was before, so the source
\* reads as before and compacting it again gives the same result.
C12_CompactSourceUnchanged ==
    Did(0, "compact") =>
        LET source == H(0).arg[1]
        IN  /\ source = H(0).before
            /\ Buffer_get(ROOT_PTR_ADDR, source, schema)
                 = Buffer_get(ROOT_PTR_ADDR, H(0).before, schema)
            /\ Buffer_compact(ROOT_PTR_ADDR, source, schema).res = H(0).res
            /\ H(0).res.status = "Ok"
                 => Buffer_compact(ROOT_PTR_ADDR, source, schema).bytes = bytes

C12_Witness ==
    /\ DidOk(0, "compact")
    /\ AddrValue(H(0).before) # 0
    /\ H(0).arg[1] = H(0).before
    /\ bytes # H(0).before
    /\ Buffer_get(ROOT_PTR_ADDR, H(0).arg[1], schema) = Ok(Some(TRUE))

\* C13: to_json of a bool cursor emits true or false for a stored value,
\* the schema default when the value is absent and a default is declared,
\* and null only when the value is absent and no default is declared.
C13_ToJson ==
    Did(0, "to_json") =>
        LET addr == AddrValue(H(0).before)
            json == H(0).res.val
        IN  /\ H(0).res.status = "Ok"
            /\ addr # 0 =>
                 json = IF H(0).before[addr + 1] = 1 THEN JTrue ELSE JFalse
            /\ (addr = 0 /\ DeclaredDefault # None) =>
                 json = IF DeclaredDefault[1] THEN JTrue ELSE JFalse
            /\ json = JNull <=> (addr = 0 /\ DeclaredDefault = None)

C13_Witness ==
    /\ DidOk(1, "del") /\ Did(0, "to_json")
    /\ AddrValue(H(0).before) = 0
    /\ DeclaredDefault = Some(TRUE)
    /\ H(0).res = Ok(JTrue)

\* The cursor the last successful parse recorded, and that call's arguments
ParsedCursor(k) == H(k).res.val[1]
ParsedArgs(k) == H(k).arg[1]

\* C15: the pointer cell shape of a parsed cursor is determined by the
\* parent's schema kind: the 2-byte scalar pointer when the parent is the
\* root, a Table or a Tuple, the 5-byte list-item pointer when the node at
\* parent_schema_addr is a List, the 8-byte map-item pointer when it is a
\* Map.
C15_CellShapeByParent ==
    DidOk(0, "parse") =>
        LET a == ParsedArgs(0)
            kind == schema[a.parent_schema_addr + 1].i
            size == PointerSize(ParsedCursor(0).value)
        IN  /\ (a.parent_addr = 0 \/ kind \in {"Table", "Tuple"}) => size = 2
            /\ (a.parent_addr # 0 /\ kind = "List") => size = 5
            /\ (a.parent_addr # 0 /\ kind = "Map") => size = 8

\* C16: parse dispatches on the cursor's own schema kind: a Table, List,
\* Tuple or Map node gets the corresponding collection structure, and only
\* a scalar node is recorded as a cursor with Scalar data.
C16_DispatchOnOwnKind ==
    DidOk(0, "parse") =>
        LET kind == schema[ParsedArgs(0).schema_addr + 1].i
        IN  ParsedCursor(0).data
              = IF kind \in {"Table", "List", "Tuple", "Map"} THEN kind
                ELSE "Scalar"

\* C17: cursor bounds: every cursor recorded by parse has schema_addr less
\* than the number of schema nodes, and buff_addr = 0 or buff_addr plus its
\* pointer cell size (2, 5 or 8) at most the buffer length.
C17_CursorBounds ==
    DidOk(0, "parse") =>
        LET cur == ParsedCursor(0)
        IN  /\ cur.schema_addr < Len(schema)
            /\ \/ cur.buff_addr = 0
               \/ cur.buff_addr + PointerSize(cur.value) <= Len(bytes)

\* C18: calc_size returns the pointer cell size plus the size of the value
\* allocation, which counts 0 when addr_value is 0: a real cursor with no
\* value returns its cell size of 2, 5 or 8, a set bool returns the cell
\* size plus 1 (2 + 1 under a scalar pointer); a virtual cursor returns 0.
C18_CalcSize ==
    (Did(0, "calc_size") /\ DidOk(1, "parse")) =>
        LET cur == ParsedCursor(1)
            cell == PointerSize(cur.value)
        IN  /\ H(0).arg[1] = Virtual => H(0).res = Ok(0)
            /\ (H(0).arg[1] # Virtual /\ cur.buff_addr + cell <= Len(bytes)) =>
                 H(0).res = Ok(cell + IF get_addr_value(cur, bytes) = 0
                                      THEN 0 ELSE 1)

C18_Witness ==
    /\ Did(0, "calc_size") /\ DidOk(1, "parse")
    /\ H(0).arg[1] = Real(ParsedCursor(1).buff_addr)
    /\ ParsedCursor(1).value = "List_Item"
    /\ ParsedCursor(1).buff_addr + 5 <= Len(bytes)
    /\ get_addr_value(ParsedCursor(1), bytes) # 0
    /\ H(0).res = Ok(6)

\* The fields of a cell shape, each with its offset and width in bytes
FieldAt(field) ==
    CASE field = "addr_value" -> [offset |-> 0, width |-> 2]
      [] field = "next_value" -> [offset |-> 2, width |-> 2]
      [] field = "index"      -> [offset |-> 4, width |-> 1]
      [] field = "key_hash"   -> [offset |-> 4, width |-> 4]

FieldsOf(shape) ==
    CASE shape = "Scalar"    -> {"addr_value"}
      [] shape = "List_Item" -> {"addr_value", "next_value", "index"}
      [] shape = "Map_Item"  -> {"addr_value", "next_value", "key_hash"}
      [] shape = "Bytes8"    -> {"addr_value", "next_value", "index", "key_hash"}

FieldWritten(op) ==
    CASE op = "set_addr_value" -> "addr_value"
      [] op = "set_next_addr"  -> "next_value"
      [] op = "set_index"      -> "index"
      [] op = "set_key_hash"   -> "key_hash"

GetField(shape, field, b) ==
    CASE field = "addr_value" -> Ok(get_addr_value([buff_addr |-> 0], b))
      [] field = "next_value" -> get_next_addr(shape, b, 0)
      [] field = "index"      -> get_index(shape, b, 0)
      [] field = "key_hash"   -> get_key_hash(shape, b, 0)

\* The value x as `width` big-endian bytes, most significant first
BigEndian(x, width) ==
    CASE width = 1 -> <<x>>
      [] width = 2 -> <<x \div 256, x % 256>>
      [] width = 4 -> <<x[1] \div 256, x[1] % 256, x[2] \div 256, x[2] % 256>>

\* In the raw [u8; 8] the list item's index and the map item's key_hash
\* share byte 4; no cell shape has both.
Independent(f, g) == f # g /\ {f, g} # {"index", "key_hash"}

\* C19: pointer cell fields are independent big-endian fields at fixed
\* offsets: addr_value is bytes 0..2, next_value bytes 2..4, index byte 4,
\* key_hash bytes 4..8; a value written with a field's setter is read back
\* by its getter, and the write leaves the other fields of the cell (and
\* every byte outside the field) unchanged.
C19_CellFields ==
    (hist # <<>> /\ H(0).op \in {"set_addr_value", "set_next_addr",
                                 "set_index", "set_key_hash"}
                 /\ FieldWritten(H(0).op) \in FieldsOf(H(0).arg[1].shape)) =>
        LET shape == H(0).arg[1].shape
            x == H(0).arg[1].x
            f == FieldWritten(H(0).op)
            at == FieldAt(f)
        IN  /\ H(0).res.status = "Ok"
            /\ GetField(shape, f, bytes) = Ok(x)
            /\ \A i \in 1..at.width :
                   bytes[at.offset + i] = BigEndian(x, at.width)[i]
            /\ \A i \in 1..Len(bytes) :
                   (i <= at.offset \/ i > at.offset + at.width)
                        => bytes[i] = H(0).before[i]
            /\ \A g \in FieldsOf(shape) :
                   Independent(f, g)
                        => GetField(shape, g, bytes) = GetField(shape, g, H(0).before)

C19_Witness ==
    /\ Did(0, "set_next_addr")
    /\ H(0).arg[1] = CellArg("List_Item", 4660)
    /\ get_next_addr("List_Item", bytes, 0) = Ok(4660)
    /\ bytes[3] = 18 /\ bytes[4] = 52
    /\ get_addr_value([buff_addr |-> 0], bytes) = 65535
    /\ get_index("List_Item", bytes, 0) = Ok(1)

\* The lifecycle state of a buffer: Empty exactly while its root pointer is
\* 0.  Compaction is one synchronous call, so Compacting is never a state
\* between two operations.
BufState(b) == IF AddrValue(b) = 0 THEN "Empty" ELSE "Populated"

\* C20: buffer lifecycle: over any sequence of set, del and compact, the
\* state changes only by Empty -> Populated on a root set (compaction
\* leaving the state as it was), and no operation leads from Populated back
\* to Empty.
C20_Lifecycle ==
    [][ BufState(bytes') # BufState(bytes) =>
            /\ BufState(bytes) = "Empty"
            /\ BufState(bytes') = "Populated"
            /\ hist'[Len(hist')].op \in {"set", "set_default"} ]_vars

\* C20, amended: a successful root set leaves the buffer Populated, del
\* leads back to Empty, compaction keeps the state, and nothing else changes
\* it.
C20_LifecycleWithDel ==
    [][ LET last == hist'[Len(hist')]
        IN  /\ (last.op \in {"set", "set_default"} /\ last.res.status = "Ok")
                    => BufState(bytes') = "Populated"
            /\ (last.op = "del" /\ last.res.status = "Ok")
                    => BufState(bytes') = "Empty"
            /\ BufState(bytes') # BufState(bytes)
                    => /\ last.op \in {"set", "set_default", "del"}
                       /\ last.res.status = "Ok" ]_vars

C20_Witness ==
    /\ DidOk(2, "set") /\ BufState(H(2).before) = "Empty"
    /\ DidOk(1, "del") /\ BufState(H(1).before) = "Populated"
    /\ DidOk(0, "compact") /\ BufState(H(0).before) = "Empty"
    /\ BufState(bytes) = "Empty"

====
